---- MODULE Spec2Model ----
(***************************************************************************)
(* A model of build.rs of rust-ffmpeg-sys: the bindgen parse callbacks     *)
(* (int_macro, enum_variant_behavior), the header resolver                 *)
(* (search_include), the serde post-processing pass and the build run      *)
(* (main / thread_main).                                                   *)
(*                                                                         *)
(* Strings whose characters the code inspects (macro and variant names)    *)
(* are sequences of one-character strings.  Paths are sequences of path    *)
(* components.  The generated text is a sequence of lexical tokens.  An    *)
(* i64 is four 16-bit limbs, most significant first, in two's complement.  *)
(***************************************************************************)
EXTENDS Integers, Sequences, FiniteSets, TLC

VARIABLES
    \* ---- the process environment and the filesystem (inputs of a run) ----
    env,          \* the variables for which env::var returns Ok
    fs,            \* the paths for which fs::metadata returns Ok
    \* ---- the build run: main and thread_main ----
    pc,           \* the position of the run in main / thread_main
    grp,          \* the index of the next header group of thread_main
    stdout,       \* the lines printed with println!
    headers,      \* the headers given to the builder, in order
    bindings,     \* the generated text (empty before generate returns)
    artifact,     \* the texts written to $OUT_DIR/bindings.rs by this run, in order
    events,       \* history: the env reads and the pipeline steps, in order
    \* ---- one call of a parse callback ----
    cb_name,      \* the macro or variant name of the call
    cb_value,     \* the value of the call
    cb_enum,      \* the enum name of the call (enum_variant_behavior)
    cb_ret,       \* what the call returned ("pending" before it returns)
    cb_last,      \* the previous call and what it returned
    \* ---- one call of search_include ----
    si_roots,     \* include_paths
    si_header,    \* header
    si_ret,       \* the returned path (empty before it returns)
    \* ---- one run of the post-processing pass ----
    pp_serde,     \* whether CARGO_FEATURE_SERDE is set
    pp_in,        \* the text before the pass
    pp_out,       \* the text after each application of the pass so far
    pp_n          \* how many times the pass has been applied

buildVars == <<env, fs, pc, grp, stdout, headers, bindings, artifact, events>>
cbVars == <<cb_name, cb_value, cb_enum, cb_ret, cb_last>>
siVars == <<si_roots, si_header, si_ret>>
ppVars == <<pp_serde, pp_in, pp_out, pp_n>>
vars == <<buildVars, cbVars, siVars, ppVars>>

\* What a callback returns is a record; None is Option::None.
None == [kind |-> "None"]
Pending == [kind |-> "pending"]
\* Option<&str>::None for an enum without a name.
NoName == "<anonymous>"
\* No path yet.
NoPath == << >>
\* No earlier call.
NoCall == [made |-> FALSE]

(***************************************************************************)
(* Sequences                                                               *)
(***************************************************************************)

\* str::starts_with
starts_with(s, p) == Len(s) >= Len(p) /\ SubSeq(s, 1, Len(p)) = p

\* The sequences over S of length at most n.
SeqsUpTo(S, n) == UNION {[1..k -> S] : k \in 0..n}

(***************************************************************************)
(* i64 values: four 16-bit limbs, two's complement                         *)
(***************************************************************************)

LimbBase == 2^16

\* `x as i64` of an i32 given as two limbs: sign extension.
as_i64(x) == IF x[1] >= LimbBase \div 2 THEN <<LimbBase - 1, LimbBase - 1>> \o x
                                         ELSE <<0, 0>> \o x

i32_min_value == <<LimbBase \div 2, 0>>
i32_max_value == <<LimbBase \div 2 - 1, LimbBase - 1>>
i64_min_value == <<LimbBase \div 2, 0, 0, 0>>
i64_max_value == <<LimbBase \div 2 - 1, LimbBase - 1, LimbBase - 1, LimbBase - 1>>

\* The signed order of i64: the sign limb is biased, the rest compare unsigned.
Biased(a) == [a EXCEPT ![1] = (a[1] + LimbBase \div 2) % LimbBase]

RECURSIVE LexLe(_, _)
LexLe(a, b) ==
    IF a = << >> THEN TRUE
    ELSE IF Head(a) # Head(b) THEN Head(a) < Head(b)
    ELSE LexLe(Tail(a), Tail(b))

i64_le(a, b) == LexLe(Biased(a), Biased(b))
i64_ge(a, b) == i64_le(b, a)

(***************************************************************************)
(* Callbacks::int_macro                                                    *)
(***************************************************************************)

ch_layout_prefix == <<"A", "V", "_", "C", "H", "_">>
codec_cap_prefix == <<"A", "V", "_", "C", "O", "D", "E", "C", "_", "C", "A", "P", "_">>
codec_flag_prefix == <<"A", "V", "_", "C", "O", "D", "E", "C", "_", "F", "L", "A", "G", "_">>
error_max_size == <<"A", "V", "_", "E", "R", "R", "O", "R", "_", "M", "A", "X", "_",
                    "S", "T", "R", "I", "N", "G", "_", "S", "I", "Z", "E">>

IntKind_ULongLong == [kind |-> "IntKind::ULongLong"]
IntKind_UInt == [kind |-> "IntKind::UInt"]
IntKind_Int == [kind |-> "IntKind::Int"]
IntKind_Custom(name, is_signed) == [kind |-> "IntKind::Custom", name |-> name, is_signed |-> is_signed]

\* The generic 32-bit test placed before the rules on the name.
int_macro_range_first(name, value) ==
    IF /\ i64_ge(value, as_i64(i32_min_value))
       /\ i64_le(value, as_i64(i32_max_value))
    THEN IntKind_Int
    ELSE IF /\ i64_ge(value, i64_min_value)
            /\ i64_le(value, i64_max_value)
            /\ starts_with(name, ch_layout_prefix)
    THEN IntKind_ULongLong
    ELSE IF name = error_max_size
    THEN IntKind_Custom("usize", FALSE)
    ELSE None

\* The channel-layout rule given the 32-bit range of the codec rule.
int_macro_narrow_layout(name, value) ==
    IF /\ i64_ge(value, as_i64(i32_min_value))
       /\ i64_le(value, as_i64(i32_max_value))
       /\ starts_with(name, ch_layout_prefix)
    THEN IntKind_ULongLong
    ELSE IF /\ i64_ge(value, as_i64(i32_min_value))
            /\ i64_le(value, as_i64(i32_max_value))
            /\ (starts_with(name, codec_cap_prefix) \/ starts_with(name, codec_flag_prefix))
    THEN IntKind_UInt
    ELSE IF name = error_max_size
    THEN IntKind_Custom("usize", FALSE)
    ELSE IF /\ i64_ge(value, as_i64(i32_min_value))
            /\ i64_le(value, as_i64(i32_max_value))
    THEN IntKind_Int
    ELSE None

\* The error-size rule placed after the generic 32-bit rule.
int_macro_size_last(name, value) ==
    IF /\ i64_ge(value, i64_min_value)
       /\ i64_le(value, i64_max_value)
       /\ starts_with(name, ch_layout_prefix)
    THEN IntKind_ULongLong
    ELSE IF /\ i64_ge(value, as_i64(i32_min_value))
            /\ i64_le(value, as_i64(i32_max_value))
            /\ (starts_with(name, codec_cap_prefix) \/ starts_with(name, codec_flag_prefix))
    THEN IntKind_UInt
    ELSE IF /\ i64_ge(value, as_i64(i32_min_value))
            /\ i64_le(value, as_i64(i32_max_value))
    THEN IntKind_Int
    ELSE IF name = error_max_size
    THEN IntKind_Custom("usize", FALSE)
    ELSE None

int_macro(name, value) ==
    IF /\ i64_ge(value, i64_min_value)
       /\ i64_le(value, i64_max_value)
       /\ starts_with(name, ch_layout_prefix)
    THEN IntKind_ULongLong
    ELSE IF /\ i64_ge(value, as_i64(i32_min_value))
            /\ i64_le(value, as_i64(i32_max_value))
            /\ (starts_with(name, codec_cap_prefix) \/ starts_with(name, codec_flag_prefix))
    THEN IntKind_UInt
    ELSE IF name = error_max_size
    THEN IntKind_Custom("usize", FALSE)
    ELSE IF /\ i64_ge(value, as_i64(i32_min_value))
            /\ i64_le(value, as_i64(i32_max_value))
    THEN IntKind_Int
    ELSE None

(***************************************************************************)
(* Callbacks::enum_variant_behavior                                        *)
(***************************************************************************)

dummy_codec_id_prefix == <<"A", "V", "_", "C", "O", "D", "E", "C", "_", "I", "D", "_",
                           "F", "I", "R", "S", "T", "_">>

Constify == [kind |-> "EnumVariantCustomBehavior::Constify"]

\* The decision taken for the variants of the codec-id enum only.
enum_variant_behavior_one_enum(enum_name, original_variant_name, variant_value) ==
    IF /\ enum_name = "AVCodecID"
       /\ starts_with(original_variant_name, dummy_codec_id_prefix)
    THEN Constify
    ELSE None

enum_variant_behavior(enum_name, original_variant_name, variant_value) ==
    IF starts_with(original_variant_name, dummy_codec_id_prefix)
    THEN Constify
    ELSE None

(***************************************************************************)
(* search_include                                                          *)
(***************************************************************************)

\* PathBuf::join of a directory and a relative path: one more component.
\* Every header thread_main asks for is a relative path.
join(dir, header) == dir \o <<header>>

\* format!("/usr/include/{}", header)
usr_include(header) == <<"/", "usr", "include", header>>

\* The loop keeps going after a hit, so the last root holding the header wins.
RECURSIVE search_include_last_hit(_, _, _)
search_include_last_hit(include_paths, header, exists) ==
    IF include_paths = << >> THEN usr_include(header)
    ELSE LET dir == include_paths[Len(include_paths)]
             include == join(dir, header)
         IN IF include \in exists
            THEN include
            ELSE search_include_last_hit(SubSeq(include_paths, 1, Len(include_paths) - 1),
                                         header, exists)

\* `exists` holds the paths for which fs::metadata(..).is_ok().
RECURSIVE search_include(_, _, _)
search_include(include_paths, header, exists) ==
    IF include_paths = << >> THEN usr_include(header)
    ELSE LET dir == Head(include_paths)
             include == join(dir, header)
         IN IF include \in exists
            THEN include
            ELSE search_include(Tail(include_paths), header, exists)

(***************************************************************************)
(* The post-processing pass: Regex::replace_all over the generated text    *)
(*                                                                         *)
(* The text is a sequence of tokens laid side by side: "ws" is a run of    *)
(* white space, "#" "[" "]" "(" ")" are themselves, every other token is   *)
(* a run of other characters.  A literal of the pattern matches a token;   *)
(* \s* matches any number of "ws"; [^)]+ matches one or more tokens other  *)
(* than ")".                                                               *)
(***************************************************************************)

At(t, i) == IF i \in 1..Len(t) THEN t[i] ELSE "<end>"

\* The least of a set of positions.
Least(S) == CHOOSE j \in S : \A k \in S : j <= k

\* The first position at or after i holding token k, or the first position
\* past the end.
FirstOf(t, i, k) ==
    IF i > Len(t) THEN i
    ELSE Least({j \in i..(Len(t) + 1) : j > Len(t) \/ t[j] = k})

\* \s* from position i, greedy: the first position at or after i that is not
\* white space.
SkipWs(t, i) ==
    IF i > Len(t) THEN i
    ELSE Least({j \in i..(Len(t) + 1) : j > Len(t) \/ t[j] # "ws"})

\* [^)]+ from position i, greedy: the first position at or after i holding ")",
\* or past the end.
SkipNonParen(t, i) == FirstOf(t, i, ")")

\* Where a match can start: the first position at or after i holding "#".
NextHash(t, i) == FirstOf(t, i, "#")

NoMatch == [ok |-> FALSE]

\* #\s*\[\s*derive\s*\((?P<d>[^)]+)\)\s*\]\s*pub\s*(?P<s>enum)  matched at i.
\* Every quantifier is followed by a token it cannot match, so the match
\* starting at i is unique.
regex_match_at(t, i) ==
    LET hash == i
        lbr == SkipWs(t, hash + 1)
        der == SkipWs(t, lbr + 1)
        lpar == SkipWs(t, der + 1)
        rpar == SkipNonParen(t, lpar + 1)
        rbr == SkipWs(t, rpar + 1)
        pub == SkipWs(t, rbr + 1)
        enum == SkipWs(t, pub + 1)
    IN IF /\ At(t, hash) = "#"
          /\ At(t, lbr) = "["
          /\ At(t, der) = "derive"
          /\ At(t, lpar) = "("
          /\ rpar > lpar + 1
          /\ At(t, rpar) = ")"
          /\ At(t, rbr) = "]"
          /\ At(t, pub) = "pub"
          /\ At(t, enum) = "enum"
       THEN [ok |-> TRUE, end |-> enum,
             d |-> SubSeq(t, lpar + 1, rpar - 1), s |-> <<t[enum]>>]
       ELSE NoMatch

\* The replacement string with $d and $s expanded.
replacement(d, s) ==
    <<"ws", "#", "[", "derive", "(">> \o d \o <<")", "]",
      "ws", "#", "[", "cfg_attr", "(", "feature", "ws", "=", "ws", "'serde'", ",", "ws",
            "derive", "(", "serde::Serialize", ",", "ws", "serde::Deserialize", ")", ")", "]",
      "ws", "#", "[", "cfg_attr", "(", "feature", "ws", "=", "ws", "'serde'", ",", "ws",
            "serde", "(", "rename_all", "ws", "=", "ws", "'kebab-case'", ")", ")", "]",
      "ws", "pub", "ws">> \o s \o <<"ws">>

\* Regex::replace: the leftmost match only.
RECURSIVE replace_from(_, _)
replace_from(t, i) ==
    LET h == NextHash(t, i)
        m == regex_match_at(t, h)
    IN IF h > Len(t) THEN SubSeq(t, i, Len(t))
       ELSE IF m.ok
       THEN SubSeq(t, i, h - 1) \o replacement(m.d, m.s) \o SubSeq(t, m.end + 1, Len(t))
       ELSE SubSeq(t, i, h) \o replace_from(t, h + 1)

\* Regex::replace_all: the successive non-overlapping matches, leftmost first.
\* The text from i on is scanned for the next position a match starts at; what
\* lies before it is copied.
RECURSIVE replace_all_from(_, _)
replace_all_from(t, i) ==
    LET h == NextHash(t, i)
        m == regex_match_at(t, h)
    IN IF h > Len(t) THEN SubSeq(t, i, Len(t))
       ELSE IF m.ok
       THEN SubSeq(t, i, h - 1) \o replacement(m.d, m.s) \o replace_all_from(t, m.end + 1)
       ELSE SubSeq(t, i, h) \o replace_all_from(t, h + 1)

replace_first(t) == replace_from(t, 1)

replace_all(t) == replace_all_from(t, 1)

\* Lines 349-361: the pass runs when CARGO_FEATURE_SERDE is set.
postprocess(text, serde) == IF serde THEN replace_all(text) ELSE text

(***************************************************************************)
(* The callbacks as the translation engine calls them                      *)
(***************************************************************************)

\* How many characters follow a stem in the names the calls are made with.
MaxTail == 1

TailChars == {"A", "_"}
Tails == SeqsUpTo(TailChars, MaxTail)

\* All but the last character.
Chop(s) == SubSeq(s, 1, Len(s) - 1)

MacroStems ==
    {ch_layout_prefix, Chop(ch_layout_prefix),
     codec_cap_prefix, Chop(codec_cap_prefix),
     codec_flag_prefix, Chop(codec_flag_prefix),
     error_max_size, Chop(error_max_size),
     <<"A", "V", "_">>, <<"F", "P", "_", "N", "A", "N">>}
MacroNames == {stem \o tail : stem \in MacroStems, tail \in Tails}

LimbSamples == {0, 1, LimbBase \div 2 - 1, LimbBase \div 2, LimbBase - 1}
MacroValues == [1..4 -> LimbSamples]

VariantStems ==
    {dummy_codec_id_prefix, Chop(dummy_codec_id_prefix),
     <<"_", "F", "I", "R", "S", "T", "_">>,
     <<"A", "V", "_", "C", "O", "D", "E", "C", "_", "I", "D", "_">>}
VariantNames == {stem \o tail : stem \in VariantStems, tail \in Tails}
EnumNames == {NoName, "AVCodecID", "AVPixelFormat"}
\* EnumVariantValue: AV_CODEC_ID_NONE = 0, AV_CODEC_ID_FIRST_AUDIO = 0x10000.
VariantValues ==
    {[tag |-> "Signed", v |-> <<0, 0, 0, 0>>],
     [tag |-> "Signed", v |-> <<0, 0, 1, 0>>],
     [tag |-> "Unsigned", v |-> <<0, 0, 1, 0>>]}

IdleBuild ==
    /\ env = {} /\ fs = {} /\ pc = "idle" /\ grp = 0 /\ stdout = << >>
    /\ headers = << >> /\ bindings = << >> /\ artifact = << >> /\ events = << >>
IdleCb ==
    /\ cb_name = << >> /\ cb_value = << >> /\ cb_enum = NoName
    /\ cb_ret = Pending /\ cb_last = NoCall
IdleSi == si_roots = << >> /\ si_header = "" /\ si_ret = NoPath
IdlePp == pp_serde = FALSE /\ pp_in = << >> /\ pp_out = << >> /\ pp_n = 0

\* The engine has a macro with an integer value and asks for its kind.
InitIntMacro ==
    /\ cb_name \in MacroNames
    /\ cb_value \in MacroValues
    /\ cb_enum = NoName /\ cb_ret = Pending /\ cb_last = NoCall
    /\ IdleBuild /\ IdleSi /\ IdlePp

CallIntMacro ==
    /\ cb_ret = Pending
    /\ cb_ret' = int_macro(cb_name, cb_value)
    /\ UNCHANGED <<cb_name, cb_value, cb_enum, cb_last, buildVars, siVars, ppVars>>

NextIntMacro == CallIntMacro
SpecIntMacro == InitIntMacro /\ [][NextIntMacro]_vars

\* The engine has an enum variant and asks how to emit it.
InitEnumVariant ==
    /\ cb_name \in VariantNames
    /\ cb_value \in VariantValues
    /\ cb_enum \in EnumNames
    /\ cb_ret = Pending /\ cb_last = NoCall
    /\ IdleBuild /\ IdleSi /\ IdlePp

CallEnumVariantBehavior ==
    /\ cb_ret = Pending
    /\ cb_ret' = enum_variant_behavior(cb_enum, cb_name, cb_value)
    /\ UNCHANGED <<cb_name, cb_value, cb_enum, cb_last, buildVars, siVars, ppVars>>

\* The engine goes on to the next variant; the call just made is remembered.
NextVariant ==
    /\ cb_ret # Pending
    /\ cb_last' = [made |-> TRUE, enum_name |-> cb_enum, name |-> cb_name, value |-> cb_value, ret |-> cb_ret]
    /\ cb_name' \in VariantNames
    /\ cb_value' \in VariantValues
    /\ cb_enum' \in EnumNames
    /\ cb_ret' = Pending
    /\ UNCHANGED <<buildVars, siVars, ppVars>>

NextEnumVariant == CallEnumVariantBehavior \/ NextVariant
SpecEnumVariant == InitEnumVariant /\ [][NextEnumVariant]_vars

(***************************************************************************)
(* search_include called on its own                                        *)
(***************************************************************************)

\* How many include roots a call is given.
MaxRoots == 2

SampleDirs == {<<"/", "A">>, <<"/", "B">>, <<"/", "usr", "include">>}
SampleHeaders == {"libavutil/avutil.h", "emscripten.h"}
SamplePaths == {join(dir, h) : dir \in SampleDirs, h \in SampleHeaders}

InitSearchInclude ==
    /\ si_roots \in SeqsUpTo(SampleDirs, MaxRoots)
    /\ si_header \in SampleHeaders
    /\ si_ret = NoPath
    /\ fs \in SUBSET SamplePaths
    /\ env = {} /\ pc = "idle" /\ grp = 0 /\ stdout = << >>
    /\ headers = << >> /\ bindings = << >> /\ artifact = << >> /\ events = << >>
    /\ IdleCb /\ IdlePp

CallSearchInclude ==
    /\ si_ret = NoPath
    /\ si_ret' = search_include(si_roots, si_header, fs)
    /\ UNCHANGED <<si_roots, si_header, buildVars, cbVars, ppVars>>

NextSearchInclude == CallSearchInclude
SpecSearchInclude == InitSearchInclude /\ [][NextSearchInclude]_vars

(***************************************************************************)
(* The post-processing pass run on its own, and run again on its output    *)
(***************************************************************************)

\* How many pieces a sample text is made of.
MaxChunks == 4

\* The pieces bindgen makes an enum and a struct of, and pieces that break
\* the shape.
DeriveBlock == <<"#", "[", "derive", "(", "Debug", ",", "ws", "Eq", ")", "]", "ws">>
ReprBlock == <<"#", "[", "repr", "(", "u32", ")", "]", "ws">>
PubEnum == <<"pub", "ws", "enum", "ws", "AVCodecID", "ws", "{", "}", "ws">>
PubStruct == <<"pub", "ws", "struct", "ws", "AVFrame", "ws", "{", "}", "ws">>
OpenDerive == <<"#", "ws", "[", "ws", "derive", "ws", "(", "Clone">>
CloseToEnum == <<")", "ws", "]", "pub", "enum">>
Chunks == {DeriveBlock, ReprBlock, PubEnum, PubStruct, OpenDerive, CloseToEnum}

RECURSIVE Flatten(_)
Flatten(ss) == IF ss = << >> THEN << >> ELSE Head(ss) \o Flatten(Tail(ss))

SampleTexts == {Flatten(cs) : cs \in SeqsUpTo(Chunks, MaxChunks)}

InitPostProcess ==
    /\ pp_serde \in BOOLEAN
    /\ pp_in \in SampleTexts
    /\ pp_out = << >>
    /\ pp_n = 0
    /\ IdleBuild /\ IdleCb /\ IdleSi

\* The pass of one build, over the text bindgen generated.
PostProcess ==
    /\ pp_n = 0
    /\ pp_out' = <<postprocess(pp_in, pp_serde)>>
    /\ pp_n' = 1
    /\ UNCHANGED <<pp_serde, pp_in, buildVars, cbVars, siVars>>

\* The same pass over the text it produced.
PostProcessAgain ==
    /\ pp_n = 1
    /\ pp_out' = Append(pp_out, postprocess(pp_out[1], pp_serde))
    /\ pp_n' = 2
    /\ UNCHANGED <<pp_serde, pp_in, buildVars, cbVars, siVars>>

NextPostProcess == PostProcess \/ PostProcessAgain
SpecPostProcess == InitPostProcess /\ [][NextPostProcess]_vars

(***************************************************************************)
(* The build run: main and thread_main                                     *)
(***************************************************************************)

\* env maps a variable to what env::var returns for it: Err (the variable is
\* not present, or is not valid unicode) or Ok(val).
Unset == [set |-> FALSE]
Ok(val) == [set |-> TRUE, val |-> val]

StackSizeVar == "FFMPEG_SYS_BUILD_STACK_SIZE"
RequiredVars == {"FFMPEG_DIR", "EMSDK", "CARGO_MANIFEST_DIR", "OUT_DIR"}
FeatureVars ==
    {"CARGO_FEATURE_AVCODEC", "CARGO_FEATURE_AVDEVICE", "CARGO_FEATURE_AVFILTER",
     "CARGO_FEATURE_AVFORMAT", "CARGO_FEATURE_AVRESAMPLE", "CARGO_FEATURE_POSTPROC",
     "CARGO_FEATURE_SWRESAMPLE", "CARGO_FEATURE_SWSCALE", "CARGO_FEATURE_LIB_DRM",
     "CARGO_FEATURE_SERDE"}
EnvVars == {StackSizeVar} \cup RequiredVars \cup FeatureVars

\* str::parse::<usize> of a string of characters, short enough not to overflow.
Digits == {"0", "1", "2", "3", "4", "5", "6", "7", "8", "9"}
parse_is_ok(str) ==
    LET body == IF str # << >> /\ str[1] = "+" THEN Tail(str) ELSE str
    IN body # << >> /\ \A i \in 1..Len(body) : body[i] \in Digits

\* The locals of thread_main that hold what was read from the environment.
ffmpeg_dir == env["FFMPEG_DIR"].val
emsdk_path == env["EMSDK"].val
emsdk_sysroot == join(emsdk_path, "upstream/emscripten/cache/sysroot")
include_paths == <<join(ffmpeg_dir, "include"), join(emsdk_sysroot, "include")>>

\* fn output
output == env["OUT_DIR"].val

\* Lines 111-120, each println! a line of stdout.
LinkDirectives ==
    <<<<"cargo:rustc-link-lib=static=", "avcodec">>,
      <<"cargo:rustc-link-lib=static=", "avfilter">>,
      <<"cargo:rustc-link-lib=static=", "avformat">>,
      <<"cargo:rustc-link-lib=static=", "avutil">>,
      <<"cargo:rustc-link-lib=static=", "swresample">>,
      <<"cargo:rustc-link-search=native=">> \o ffmpeg_dir \o <<"/lib">>>>

\* Lines 272-323.
BaseHeaders ==
    <<"libavutil/adler32.h", "libavutil/aes.h", "libavutil/audio_fifo.h",
      "libavutil/base64.h", "libavutil/blowfish.h", "libavutil/bprint.h",
      "libavutil/buffer.h", "libavutil/camellia.h", "libavutil/cast5.h",
      "libavutil/channel_layout.h", "libavutil/cpu.h", "libavutil/crc.h",
      "libavutil/dict.h", "libavutil/display.h", "libavutil/downmix_info.h",
      "libavutil/error.h", "libavutil/eval.h", "libavutil/fifo.h", "libavutil/file.h",
      "libavutil/frame.h", "libavutil/hash.h", "libavutil/hmac.h",
      "libavutil/imgutils.h", "libavutil/lfg.h", "libavutil/log.h", "libavutil/lzo.h",
      "libavutil/macros.h", "libavutil/mathematics.h", "libavutil/md5.h",
      "libavutil/mem.h", "libavutil/motion_vector.h", "libavutil/murmur3.h",
      "libavutil/opt.h", "libavutil/parseutils.h", "libavutil/pixdesc.h",
      "libavutil/pixfmt.h", "libavutil/random_seed.h", "libavutil/rational.h",
      "libavutil/replaygain.h", "libavutil/ripemd.h", "libavutil/samplefmt.h",
      "libavutil/sha.h", "libavutil/sha512.h", "libavutil/stereo3d.h",
      "libavutil/avstring.h", "libavutil/threadmessage.h", "libavutil/time.h",
      "libavutil/timecode.h", "libavutil/twofish.h", "libavutil/avutil.h",
      "libavutil/xtea.h", "libavutil/hwcontext.h">>

\* No flag: the group is requested in every run.
Always == "always"

\* The groups the base group was meant to follow, had it been appended last.
HeaderGroups_base_last ==
    <<[flag |-> "CARGO_FEATURE_AVCODEC", print |-> << >>,
       headers |-> <<"libavcodec/avcodec.h", "libavcodec/dv_profile.h", "libavcodec/avfft.h",
                     "libavcodec/vaapi.h", "libavcodec/vorbis_parser.h">>],
      [flag |-> "CARGO_FEATURE_AVDEVICE", print |-> << >>,
       headers |-> <<"libavdevice/avdevice.h">>],
      [flag |-> "CARGO_FEATURE_AVFILTER", print |-> <<<<"avfilter?">>>>,
       headers |-> <<"libavfilter/buffersink.h", "libavfilter/buffersrc.h",
                     "libavfilter/avfilter.h">>],
      [flag |-> "CARGO_FEATURE_AVFORMAT", print |-> << >>,
       headers |-> <<"libavformat/avformat.h", "libavformat/avio.h">>],
      [flag |-> "CARGO_FEATURE_AVRESAMPLE", print |-> << >>,
       headers |-> <<"libavresample/avresample.h">>],
      [flag |-> "CARGO_FEATURE_POSTPROC", print |-> << >>,
       headers |-> <<"libpostproc/postprocess.h">>],
      [flag |-> "CARGO_FEATURE_SWRESAMPLE", print |-> << >>,
       headers |-> <<"libswresample/swresample.h">>],
      [flag |-> "CARGO_FEATURE_SWSCALE", print |-> << >>,
       headers |-> <<"libswscale/swscale.h">>],
      [flag |-> "CARGO_FEATURE_LIB_DRM", print |-> << >>,
       headers |-> <<"libavutil/hwcontext_drm.h">>],
      [flag |-> Always, print |-> << >>, headers |-> BaseHeaders]>>

\* Lines 239-339: the `if env::var(flag).is_ok()` blocks and the unconditional
\* block, in the order of the source.
HeaderGroups ==
    <<[flag |-> "CARGO_FEATURE_AVCODEC", print |-> << >>,
       headers |-> <<"libavcodec/avcodec.h", "libavcodec/dv_profile.h", "libavcodec/avfft.h",
                     "libavcodec/vaapi.h", "libavcodec/vorbis_parser.h">>],
      [flag |-> "CARGO_FEATURE_AVDEVICE", print |-> << >>,
       headers |-> <<"libavdevice/avdevice.h">>],
      [flag |-> "CARGO_FEATURE_AVFILTER", print |-> <<<<"avfilter?">>>>,
       headers |-> <<"libavfilter/buffersink.h", "libavfilter/buffersrc.h",
                     "libavfilter/avfilter.h">>],
      [flag |-> "CARGO_FEATURE_AVFORMAT", print |-> << >>,
       headers |-> <<"libavformat/avformat.h", "libavformat/avio.h">>],
      [flag |-> "CARGO_FEATURE_AVRESAMPLE", print |-> << >>,
       headers |-> <<"libavresample/avresample.h">>],
      [flag |-> Always, print |-> << >>, headers |-> BaseHeaders],
      [flag |-> "CARGO_FEATURE_POSTPROC", print |-> << >>,
       headers |-> <<"libpostproc/postprocess.h">>],
      [flag |-> "CARGO_FEATURE_SWRESAMPLE", print |-> << >>,
       headers |-> <<"libswresample/swresample.h">>],
      [flag |-> "CARGO_FEATURE_SWSCALE", print |-> << >>,
       headers |-> <<"libswscale/swscale.h">>],
      [flag |-> "CARGO_FEATURE_LIB_DRM", print |-> << >>,
       headers |-> <<"libavutil/hwcontext_drm.h">>]>>

Event(op, arg) == [op |-> op, arg |-> arg]
Panicked == "panicked"

\* main: the stack size is parsed, then thread_main runs on the spawned thread;
\* join().unwrap() carries a panic of thread_main out of main.
Main ==
    /\ pc = "main"
    /\ events' = Append(events, Event("env", StackSizeVar))
    /\ pc' = IF env[StackSizeVar].set /\ ~parse_is_ok(env[StackSizeVar].val)
             THEN Panicked
             ELSE "ffmpeg_dir"
    /\ UNCHANGED <<env, fs, grp, stdout, headers, bindings, artifact, cbVars, siVars, ppVars>>

\* env::var(name).unwrap() at position `at`, going on to `next`.
ReadRequired(at, name, next) ==
    /\ pc = at
    /\ events' = Append(events, Event("env", name))
    /\ pc' = IF env[name].set THEN next ELSE Panicked
    /\ UNCHANGED <<env, fs, grp, stdout, headers, bindings, artifact, cbVars, siVars, ppVars>>

\* CARGO_MANIFEST_DIR read without the unwrap: its value is never used.
ReadSrcDir_lenient ==
    /\ pc = "src_dir"
    /\ events' = Append(events, Event("env", "CARGO_MANIFEST_DIR"))
    /\ pc' = "link"
    /\ UNCHANGED <<env, fs, grp, stdout, headers, bindings, artifact, cbVars, siVars, ppVars>>

ReadFfmpegDir == ReadRequired("ffmpeg_dir", "FFMPEG_DIR", "emsdk")
ReadEmsdk == ReadRequired("emsdk", "EMSDK", "src_dir")
ReadSrcDir == ReadRequired("src_dir", "CARGO_MANIFEST_DIR", "link")

EmitLinkDirectives ==
    /\ pc = "link"
    /\ stdout' = stdout \o LinkDirectives
    /\ events' = Append(events, Event("directives", ""))
    /\ pc' = "builder"
    /\ UNCHANGED <<env, fs, grp, headers, bindings, artifact, cbVars, siVars, ppVars>>

\* Lines 124-235: the builder with its options (which no step below reads) and
\* its first header, emscripten.h, looked up under the emsdk system include.
NewBuilder ==
    /\ pc = "builder"
    /\ headers' = <<search_include(<<join(emsdk_path, "upstream/emscripten/system/include")>>,
                                   "emscripten.h", fs)>>
    /\ events' = Append(events, Event("search_include", "emscripten.h"))
    /\ grp' = 1
    /\ pc' = "headers"
    /\ UNCHANGED <<env, fs, stdout, bindings, artifact, cbVars, siVars, ppVars>>

\* The blocks taken when the flag is not set: is_err for is_ok.
AddHeaderGroup_inverted ==
    /\ pc = "headers"
    /\ LET g == HeaderGroups[grp]
           on == g.flag = Always \/ ~env[g.flag].set
           read == IF g.flag = Always THEN << >> ELSE <<Event("env", g.flag)>>
       IN /\ headers' = IF on
                        THEN headers \o [i \in 1..Len(g.headers) |->
                                            search_include(include_paths, g.headers[i], fs)]
                        ELSE headers
          /\ stdout' = IF on THEN stdout \o g.print ELSE stdout
          /\ events' = events \o read \o
                       (IF on THEN <<Event("search_include", g.headers[1])>> ELSE << >>)
    /\ grp' = grp + 1
    /\ pc' = IF grp = Len(HeaderGroups) THEN "generate" ELSE "headers"
    /\ UNCHANGED <<env, fs, bindings, artifact, cbVars, siVars, ppVars>>

\* One block of lines 239-339.
AddHeaderGroup ==
    /\ pc = "headers"
    /\ LET g == HeaderGroups[grp]
           on == g.flag = Always \/ env[g.flag].set
           read == IF g.flag = Always THEN << >> ELSE <<Event("env", g.flag)>>
       IN /\ headers' = IF on
                        THEN headers \o [i \in 1..Len(g.headers) |->
                                            search_include(include_paths, g.headers[i], fs)]
                        ELSE headers
          /\ stdout' = IF on THEN stdout \o g.print ELSE stdout
          /\ events' = events \o read \o
                       (IF on THEN <<Event("search_include", g.headers[1])>> ELSE << >>)
    /\ grp' = grp + 1
    /\ pc' = IF grp = Len(HeaderGroups) THEN "generate" ELSE "headers"
    /\ UNCHANGED <<env, fs, bindings, artifact, cbVars, siVars, ppVars>>

\* What bindgen may generate: texts of the shape it gives enums and structs.
GeneratedTexts ==
    {Flatten(<<ReprBlock, DeriveBlock, PubStruct>>),
     Flatten(<<ReprBlock, DeriveBlock, PubEnum, ReprBlock, DeriveBlock, PubStruct,
               ReprBlock, DeriveBlock, PubEnum>>)}

\* generate() fails and the failure is ignored: the run goes on with no text.
Generate_failure_ignored ==
    /\ pc = "generate"
    /\ \/ /\ \A i \in 1..Len(headers) : headers[i] \in fs
          /\ bindings' \in GeneratedTexts
          /\ events' = Append(events, Event("generate", "ok"))
          /\ pc' = "serde"
       \/ /\ bindings' = << >>
          /\ events' = Append(events, Event("generate", "err"))
          /\ pc' = "serde"
    /\ UNCHANGED <<env, fs, grp, stdout, headers, artifact, cbVars, siVars, ppVars>>

\* Lines 343-347.  bindgen is not part of this repository: it returns a text
\* only when clang can open every header, and may fail for any input.
Generate ==
    /\ pc = "generate"
    /\ \/ /\ \A i \in 1..Len(headers) : headers[i] \in fs
          /\ bindings' \in GeneratedTexts
          /\ events' = Append(events, Event("generate", "ok"))
          /\ pc' = "serde"
       \/ /\ bindings' = bindings
          /\ events' = Append(events, Event("generate", "err"))
          /\ pc' = Panicked
    /\ UNCHANGED <<env, fs, grp, stdout, headers, artifact, cbVars, siVars, ppVars>>

\* Lines 349-361.
PostProcessBindings ==
    /\ pc = "serde"
    /\ bindings' = postprocess(bindings, env["CARGO_FEATURE_SERDE"].set)
    /\ events' = events \o <<Event("env", "CARGO_FEATURE_SERDE"), Event("postprocess", "")>>
    /\ pc' = "print_path"
    /\ UNCHANGED <<env, fs, grp, stdout, headers, artifact, cbVars, siVars, ppVars>>

\* Line 363: output() reads OUT_DIR and unwraps it.
PrintBindingsPath ==
    /\ pc = "print_path"
    /\ events' = Append(events, Event("env", "OUT_DIR"))
    /\ IF env["OUT_DIR"].set
       THEN /\ stdout' = Append(stdout, <<"bindings.rs=">> \o join(output, "bindings.rs"))
            /\ pc' = "write"
       ELSE /\ stdout' = stdout
            /\ pc' = Panicked
    /\ UNCHANGED <<env, fs, grp, headers, bindings, artifact, cbVars, siVars, ppVars>>

\* Lines 366-367: output() reads OUT_DIR again; fs::write may fail.
WriteBindings ==
    /\ pc = "write"
    /\ IF env["OUT_DIR"].set
       THEN \/ /\ artifact' = Append(artifact, bindings)
               /\ fs' = fs \cup {join(output, "bindings.rs")}
               /\ events' = events \o <<Event("env", "OUT_DIR"), Event("write", "ok")>>
               /\ pc' = "done"
            \/ /\ artifact' = artifact
               /\ fs' = fs
               /\ events' = events \o <<Event("env", "OUT_DIR"), Event("write", "err")>>
               /\ pc' = Panicked
       ELSE /\ artifact' = artifact
            /\ fs' = fs
            /\ events' = Append(events, Event("env", "OUT_DIR"))
            /\ pc' = Panicked
    /\ UNCHANGED <<env, grp, stdout, headers, bindings, cbVars, siVars, ppVars>>

\* The environments and filesystems the runs start from.
StackSizeSamples == {Unset, Ok(<<"4", "0", "9", "6", "0", "0", "0">>), Ok(<<"4", "m">>)}
SampleValue(var) ==
    CASE var = "FFMPEG_DIR" -> <<"/", "opt", "ffmpeg">>
      [] var = "EMSDK" -> <<"/", "opt", "emsdk">>
      [] var = "CARGO_MANIFEST_DIR" -> <<"/", "crate">>
      [] var = "OUT_DIR" -> <<"/", "target", "out">>
      [] OTHER -> <<"1">>

EnvOf(present, stack) ==
    [var \in EnvVars |->
        IF var = StackSizeVar THEN stack
        ELSE IF var \in present THEN Ok(SampleValue(var))
        ELSE Unset]

AllHeaders ==
    UNION {{HeaderGroups[g].headers[i] : i \in 1..Len(HeaderGroups[g].headers)} :
              g \in 1..Len(HeaderGroups)}
FfmpegInclude == join(SampleValue("FFMPEG_DIR"), "include")
SysrootInclude ==
    join(join(SampleValue("EMSDK"), "upstream/emscripten/cache/sysroot"), "include")
\* The headers installed under FFMPEG_DIR, emscripten.h under the emsdk.
FsFfmpeg ==
    {join(FfmpegInclude, h) : h \in AllHeaders}
        \cup {join(join(SampleValue("EMSDK"), "upstream/emscripten/system/include"),
                   "emscripten.h")}
\* The headers installed in the sysroot, emscripten.h under /usr/include.
FsSysroot ==
    {join(SysrootInclude, h) : h \in AllHeaders} \cup {usr_include("emscripten.h")}
FsSamples == {{}, FsFfmpeg, FsSysroot}

FeatureSamples ==
    {{}, FeatureVars, {"CARGO_FEATURE_AVCODEC", "CARGO_FEATURE_SWSCALE", "CARGO_FEATURE_SERDE"}}

\* Every set of features with everything else in place, and every set of
\* required variables, stack size and filesystem with some sets of features.
BuildInputs ==
    {[env |-> EnvOf(RequiredVars \cup F, Unset), fs |-> FsFfmpeg] : F \in SUBSET FeatureVars}
    \cup
    {[env |-> EnvOf(R \cup F, st), fs |-> f] :
        R \in SUBSET RequiredVars, F \in FeatureSamples,
        st \in StackSizeSamples, f \in FsSamples}

Init ==
    /\ \E in \in BuildInputs : env = in.env /\ fs = in.fs
    /\ pc = "main"
    /\ grp = 0
    /\ stdout = << >>
    /\ headers = << >>
    /\ bindings = << >>
    /\ artifact = << >>
    /\ events = << >>
    /\ IdleCb /\ IdleSi /\ IdlePp

Next ==
    \/ Main
    \/ ReadFfmpegDir
    \/ ReadEmsdk
    \/ ReadSrcDir
    \/ EmitLinkDirectives
    \/ NewBuilder
    \/ AddHeaderGroup
    \/ Generate
    \/ PostProcessBindings
    \/ PrintBindingsPath
    \/ WriteBindings

Spec == Init /\ [][Next]_vars

(***************************************************************************)
(* Claims on int_macro                                                     *)
(***************************************************************************)

\* The value lies in the 32-bit signed range: its upper 33 bits are all equal.
In32(v) ==
    \/ v[1] = 0 /\ v[2] = 0 /\ v[3] < LimbBase \div 2
    \/ v[1] = LimbBase - 1 /\ v[2] = LimbBase - 1 /\ v[3] >= LimbBase \div 2
HasLayoutPrefix(n) == starts_with(n, ch_layout_prefix)
HasCodecPrefix(n) == starts_with(n, codec_cap_prefix) \/ starts_with(n, codec_flag_prefix)
Returned == cb_ret # Pending

\* C3: int_macro returns the outcome of the first matching rule in the order
\* 1 channel-layout prefix -> unsigned 64-bit, 2 codec prefix with a 32-bit
\* value -> unsigned 32-bit, 3 the error-size name -> usize, 4 a 32-bit value
\* -> signed 32-bit, 5 no override; a codec-prefixed name with a 32-bit value is
\* never signed 32-bit, and no override is returned exactly when the value is
\* outside the 32-bit range and the name has neither the channel-layout prefix
\* nor is the error-size name.
C3_FirstMatchingRule ==
    Returned =>
        /\ cb_ret = ( IF HasLayoutPrefix(cb_name) THEN IntKind_ULongLong
                      ELSE IF HasCodecPrefix(cb_name) /\ In32(cb_value) THEN IntKind_UInt
                      ELSE IF cb_name = error_max_size THEN IntKind_Custom("usize", FALSE)
                      ELSE IF In32(cb_value) THEN IntKind_Int
                      ELSE None )
        /\ (HasCodecPrefix(cb_name) /\ In32(cb_value) => cb_ret = IntKind_UInt)
        /\ (cb_ret = None <=> /\ ~In32(cb_value)
                              /\ ~HasLayoutPrefix(cb_name)
                              /\ cb_name # error_max_size)

\* A codec-prefixed name was given a 32-bit value, and one a wider value.
C3_Witness ==
    /\ Returned
    /\ HasCodecPrefix(cb_name) /\ In32(cb_value) /\ cb_value[1] = LimbBase - 1
    /\ cb_ret = IntKind_UInt

\* C4: a name with the channel-layout prefix AV_CH_ gets the unsigned 64-bit
\* kind for every 64-bit value, negative or not.
C4_LayoutAlwaysU64 ==
    Returned /\ HasLayoutPrefix(cb_name) => cb_ret = IntKind_ULongLong

\* A channel-layout name was given i64::MIN, outside the 32-bit range.
C4_Witness ==
    /\ Returned
    /\ HasLayoutPrefix(cb_name) /\ Len(cb_name) > Len(ch_layout_prefix)
    /\ cb_value = i64_min_value
    /\ cb_ret = IntKind_ULongLong

\* C5: the macro named exactly AV_ERROR_MAX_STRING_SIZE gets the unsigned usize
\* kind for every value, in or outside the 32-bit range.
C5_ErrorSizeAlwaysUsize ==
    Returned /\ cb_name = error_max_size =>
        /\ cb_ret = IntKind_Custom("usize", FALSE)
        /\ cb_ret.is_signed = FALSE

\* The error-size name was given a 32-bit value, which the generic rule matches too.
C5_Witness ==
    /\ Returned
    /\ cb_name = error_max_size /\ In32(cb_value)
    /\ cb_ret = IntKind_Custom("usize", FALSE)

(***************************************************************************)
(* Claims on enum_variant_behavior                                         *)
(***************************************************************************)

\* C6: a variant is made a constant if and only if its name begins with the
\* sentinel prefix, whatever the enum; two calls with the same variant name
\* return the same decision, whatever their enum names and values.
C6_ConstifyByNameOnly ==
    /\ Returned =>
          (cb_ret = Constify <=> starts_with(cb_name, dummy_codec_id_prefix))
    /\ Returned => cb_ret \in {Constify, None}
    /\ Returned /\ cb_last.made /\ cb_last.name = cb_name => cb_last.ret = cb_ret

\* Two calls with one sentinel name, different enums and different values.
C6_Witness ==
    /\ Returned /\ cb_last.made
    /\ cb_last.name = cb_name /\ cb_last.enum_name # cb_enum /\ cb_last.value # cb_value
    /\ cb_enum # "AVCodecID"
    /\ cb_ret = Constify

(***************************************************************************)
(* Claims on search_include                                                *)
(***************************************************************************)

\* The roots, by index, under which the header exists.
Hits == {i \in 1..Len(si_roots) : join(si_roots[i], si_header) \in fs}
FirstHit == CHOOSE i \in Hits : \A j \in Hits : i <= j

\* C7: search_include returns the path of the header under the first include
\* root, in the given order, under which the header exists, also when that is
\* a later root only; when the header exists under no root, or there is no
\* root, it returns /usr/include/<header>.
C7_FirstRootOrFallback ==
    si_ret # NoPath =>
        /\ Hits # {} => si_ret = si_roots[FirstHit] \o <<si_header>>
        /\ Hits = {} => si_ret = <<"/", "usr", "include", si_header>>

\* Roots [A, B], the header under B only: the path under B is returned.
C7_Witness ==
    /\ si_ret # NoPath
    /\ si_roots = <<<<"/", "A">>, <<"/", "B">>>>
    /\ Hits = {2}
    /\ si_ret = <<"/", "B", si_header>>

(***************************************************************************)
(* Claims on the post-processing pass                                      *)
(***************************************************************************)

\* How many times token k occurs in t.
Count(t, k) == Cardinality({i \in 1..Len(t) : t[i] = k})

\* The enum keywords of t that end a derive block followed by `pub enum`.
Blocks(t) ==
    {regex_match_at(t, i).end :
        i \in {h \in 1..Len(t) : t[h] = "#" /\ regex_match_at(t, h).ok}}

\* C8: the pass is the identity when the serialization flag is disabled; when
\* enabled, every derive block immediately followed by a public enum gets the
\* two serialization annotations exactly once, and the pass applied to its own
\* output changes nothing.
C8_PostProcess ==
    /\ pp_n >= 1 /\ ~pp_serde => pp_out[1] = pp_in
    /\ pp_n >= 1 /\ pp_serde =>
          /\ Count(pp_out[1], "serde::Serialize") = Cardinality(Blocks(pp_in))
          /\ Count(pp_out[1], "rename_all") = Cardinality(Blocks(pp_in))
          /\ Count(pp_out[1], "enum") = Count(pp_in, "enum")
          /\ Blocks(pp_out[1]) = {}
    /\ pp_n >= 2 => pp_out[2] = pp_out[1]

\* A text with two enums was annotated and the pass was applied again.
C8_Witness ==
    /\ pp_n = 2 /\ pp_serde
    /\ Cardinality(Blocks(pp_in)) = 2
    /\ pp_out[1] # pp_in
    /\ pp_out[2] = pp_out[1]

(***************************************************************************)
(* Claims on the header requests                                           *)
(***************************************************************************)

\* The capability flags that are set.
Flags == {f \in FeatureVars : env[f].set}
\* Every block of lines 239-339 has been passed.
Requested == grp > Len(HeaderGroups)
\* The headers requested, as named in the source: the last component of each path.
HeaderNames == [i \in 1..Len(headers) |-> headers[i][Len(headers[i])]]
Range(f) == {f[i] : i \in 1..Len(f)}
BaseSet == Range(BaseHeaders)

AvcodecHeaders ==
    <<"libavcodec/avcodec.h", "libavcodec/dv_profile.h", "libavcodec/avfft.h",
      "libavcodec/vaapi.h", "libavcodec/vorbis_parser.h">>
AvfilterHeaders ==
    <<"libavfilter/buffersink.h", "libavfilter/buffersrc.h", "libavfilter/avfilter.h">>
AvformatHeaders == <<"libavformat/avformat.h", "libavformat/avio.h">>
\* The headers a flag stands for.
MappedHeaders(f) ==
    CASE f = "CARGO_FEATURE_AVCODEC" -> AvcodecHeaders
      [] f = "CARGO_FEATURE_AVDEVICE" -> <<"libavdevice/avdevice.h">>
      [] f = "CARGO_FEATURE_AVFILTER" -> AvfilterHeaders
      [] f = "CARGO_FEATURE_AVFORMAT" -> AvformatHeaders
      [] f = "CARGO_FEATURE_AVRESAMPLE" -> <<"libavresample/avresample.h">>
      [] f = "CARGO_FEATURE_POSTPROC" -> <<"libpostproc/postprocess.h">>
      [] f = "CARGO_FEATURE_SWRESAMPLE" -> <<"libswresample/swresample.h">>
      [] f = "CARGO_FEATURE_SWSCALE" -> <<"libswscale/swscale.h">>
      [] f = "CARGO_FEATURE_LIB_DRM" -> <<"libavutil/hwcontext_drm.h">>
      [] OTHER -> << >>
If(F, f) == IF f \in F THEN MappedHeaders(f) ELSE << >>
LeadingFlags ==
    {"CARGO_FEATURE_AVCODEC", "CARGO_FEATURE_AVDEVICE", "CARGO_FEATURE_AVFILTER",
     "CARGO_FEATURE_AVFORMAT", "CARGO_FEATURE_AVRESAMPLE"}
TrailingFlags ==
    {"CARGO_FEATURE_POSTPROC", "CARGO_FEATURE_SWRESAMPLE", "CARGO_FEATURE_SWSCALE",
     "CARGO_FEATURE_LIB_DRM"}
HeadersOfFlags(S) == UNION {Range(MappedHeaders(f)) : f \in S}

\* The request list as a function of the set of flags alone.
RequestsFor(F) ==
    <<"emscripten.h">>
        \o If(F, "CARGO_FEATURE_AVCODEC") \o If(F, "CARGO_FEATURE_AVDEVICE")
        \o If(F, "CARGO_FEATURE_AVFILTER") \o If(F, "CARGO_FEATURE_AVFORMAT")
        \o If(F, "CARGO_FEATURE_AVRESAMPLE")
        \o BaseHeaders
        \o If(F, "CARGO_FEATURE_POSTPROC") \o If(F, "CARGO_FEATURE_SWRESAMPLE")
        \o If(F, "CARGO_FEATURE_SWSCALE") \o If(F, "CARGO_FEATURE_LIB_DRM")

\* C1 as claimed: the request list ends with the base group; no header of an
\* optional group is requested after the last base-group header.
C1_BaseGroupLast ==
    Requested =>
        /\ HeaderNames # << >>
        /\ HeaderNames[Len(HeaderNames)] = BaseHeaders[Len(BaseHeaders)]
        /\ \A i, j \in 1..Len(HeaderNames) :
              i < j /\ HeaderNames[i] \in BaseSet => HeaderNames[j] \in BaseSet

\* C1 as amended: the base group is always requested, whole, in its order and
\* in one piece; before it come only emscripten.h and the headers of avcodec,
\* avdevice, avfilter, avformat and avresample; after it come the headers of
\* postproc, swresample, swscale and lib_drm, whenever those flags are set, so
\* the list ends with the base group exactly when none of these four is set.
C1_BaseGroupBetween ==
    Requested =>
        \E k \in 0..Len(HeaderNames) :
            /\ k + Len(BaseHeaders) <= Len(HeaderNames)
            /\ SubSeq(HeaderNames, k + 1, k + Len(BaseHeaders)) = BaseHeaders
            /\ \A i \in 1..k :
                  HeaderNames[i] \in {"emscripten.h"} \cup HeadersOfFlags(Flags \cap LeadingFlags)
            /\ {HeaderNames[i] : i \in (k + Len(BaseHeaders) + 1)..Len(HeaderNames)}
                  = HeadersOfFlags(Flags \cap TrailingFlags)
            /\ (Len(HeaderNames) = k + Len(BaseHeaders) <=> Flags \cap TrailingFlags = {})

\* The flags of postproc and swscale are set, and their headers follow the base group.
C1_Witness ==
    /\ Requested
    /\ Flags = {"CARGO_FEATURE_AVCODEC", "CARGO_FEATURE_POSTPROC", "CARGO_FEATURE_SWSCALE"}
    /\ HeaderNames[Len(HeaderNames)] = "libswscale/swscale.h"
    /\ HeaderNames[Len(HeaderNames) - 2] = "libavutil/hwcontext.h"

\* C2 as claimed: with no flag set the requested headers are exactly the base
\* group; a single flag adds exactly its mapped headers and removes no base
\* header; the list is the same for the same set of flags.
C2_NoFlagsBaseOnly ==
    Requested =>
        /\ Flags = {} => HeaderNames = BaseHeaders
        /\ \A f \in FeatureVars :
              Flags = {f} => /\ Range(HeaderNames) = BaseSet \cup Range(MappedHeaders(f))
                             /\ Len(HeaderNames) = Len(BaseHeaders) + Len(MappedHeaders(f))
        /\ HeaderNames = RequestsFor(Flags)

\* C2 as amended: with no flag set the requested headers are exactly
\* emscripten.h followed by the base group; a single flag adds exactly its
\* mapped headers (none for serde), each once, and removes neither emscripten.h
\* nor a base header; the list, order included, is a function of the set of
\* flags alone, whatever the rest of the environment and the filesystem.
C2_FeatureGate ==
    Requested =>
        /\ Flags = {} => HeaderNames = <<"emscripten.h">> \o BaseHeaders
        /\ \A f \in FeatureVars :
              Flags = {f} =>
                  /\ Range(HeaderNames) =
                        {"emscripten.h"} \cup BaseSet \cup Range(MappedHeaders(f))
                  /\ Len(HeaderNames) = 1 + Len(BaseHeaders) + Len(MappedHeaders(f))
                  /\ \E k \in 1..Len(HeaderNames) :
                        SubSeq(HeaderNames, k + 1, k + Len(BaseHeaders)) = BaseHeaders
        /\ HeaderNames = RequestsFor(Flags)

\* Only the avfilter flag is set: its three headers are added before the base group.
C2_Witness ==
    /\ Requested
    /\ Flags = {"CARGO_FEATURE_AVFILTER"}
    /\ HeaderNames = <<"emscripten.h">> \o AvfilterHeaders \o BaseHeaders

(***************************************************************************)
(* Claims on the order of the steps of a run                               *)
(***************************************************************************)

\* The steps of the pipeline taken so far: the events other than env reads.
Steps == SelectSeq(events, LAMBDA e : e.op # "env")
Happened(op, arg) == \E i \in 1..Len(events) : events[i] = Event(op, arg)
Times(op) == Cardinality({i \in 1..Len(events) : events[i].op = op})
Rank(op) ==
    CASE op = "directives" -> 1
      [] op = "search_include" -> 2
      [] op = "generate" -> 3
      [] op = "postprocess" -> 4
      [] op = "write" -> 5
Translated == Times("generate") > 0

\* C9: the steps of a run occur in one order, none repeated: the five
\* static-link directives (avcodec, avfilter, avformat, avutil, swresample) and
\* the library-search directive are printed, whatever the flags, before
\* translation; then header resolution, translation, post-processing and the
\* write; the artifact is written at most once and only after translation
\* succeeded, and a failed translation leaves no artifact.
C9_FixedOrder ==
    /\ \A i, j \in 1..Len(Steps) : i < j => Rank(Steps[i].op) <= Rank(Steps[j].op)
    /\ \A op \in {"directives", "generate", "postprocess", "write"} : Times(op) <= 1
    /\ Translated =>
          /\ Len(stdout) >= 6
          /\ \A i \in 1..5 : stdout[i][1] = "cargo:rustc-link-lib=static="
          /\ <<stdout[1][2], stdout[2][2], stdout[3][2], stdout[4][2], stdout[5][2]>>
                = <<"avcodec", "avfilter", "avformat", "avutil", "swresample">>
          /\ stdout[6][1] = "cargo:rustc-link-search=native="
          /\ Happened("directives", "") /\ Happened("search_include", "emscripten.h")
    /\ Len(artifact) <= 1
    /\ artifact # << >> =>
          /\ Happened("generate", "ok") /\ Happened("postprocess", "")
          /\ artifact[1] = bindings
          /\ pc = "done"
    /\ Happened("generate", "err") => artifact = << >> /\ pc = Panicked
    /\ Happened("postprocess", "") => Happened("generate", "ok")
    /\ Happened("write", "ok") <=> artifact # << >>

\* A run with no flag set wrote its artifact after all the other steps.
C9_Witness ==
    /\ pc = "done" /\ Flags = {}
    /\ Len(artifact) = 1
    /\ Len(stdout) = 7
    /\ Steps[Len(Steps)] = Event("write", "ok")

(***************************************************************************)
(* Claims on the reads of the environment                                  *)
(***************************************************************************)

Reads(var) == Cardinality({i \in 1..Len(events) : events[i] = Event("env", var)})
StartupVars == {"FFMPEG_DIR", "EMSDK", "CARGO_MANIFEST_DIR"}
NothingDone ==
    /\ stdout = << >> /\ headers = << >> /\ artifact = << >>
    /\ ~Translated

\* C10 as claimed: every required input (the three roots, the output
\* directory, the flags) is read once, before any directive is printed and
\* before translation; when a required input is absent the build aborts with
\* no directive printed, no translation run and no artifact written.
C10_AllReadAtStartup ==
    /\ \A v \in RequiredVars \cup FeatureVars : Reads(v) <= 1
    /\ \A i, j \in 1..Len(events) :
          /\ i < j
          /\ events[j].op = "env"
          /\ events[j].arg \in RequiredVars \cup FeatureVars
          => events[i].op = "env"
    /\ (\E v \in RequiredVars : ~env[v].set) => NothingDone

\* C10 as amended: the native-library root, the toolchain root and the project
\* root are each read once, before any directive is printed and before
\* translation, and when one of them is absent the build aborts with no
\* directive printed, no translation run and no artifact written.  The flags
\* are read one by one, each once, after the directives are printed.  The
\* build output directory is read only after post-processing, once to print
\* the path and once more to write; when it is absent no artifact is written,
\* and the build aborts only at that read, after the directives and the
\* translation, unless an earlier step has failed.
C10_StartupReads ==
    /\ \A v \in StartupVars \cup FeatureVars : Reads(v) <= 1
    /\ Reads("OUT_DIR") <= 2
    /\ \A i, j \in 1..Len(events) :
          i < j /\ events[j].op = "env" /\ events[j].arg \in StartupVars
          => events[i].op = "env"
    /\ (\E v \in StartupVars : ~env[v].set) => NothingDone /\ pc # "done"
    /\ \A j \in 1..Len(events) :
          events[j].op = "env" /\ events[j].arg \in FeatureVars
          => \E i \in 1..(j - 1) : events[i].op = "directives"
    /\ \A j \in 1..Len(events) :
          events[j] = Event("env", "OUT_DIR")
          => \E i \in 1..(j - 1) : events[i].op = "postprocess"
    /\ ~env["OUT_DIR"].set => artifact = << >> /\ pc # "done"
    /\ pc \in {"link", "builder", "headers", "generate"} =>
          \A v \in StartupVars : Reads(v) = 1
    /\ pc = "done" => Reads("OUT_DIR") = 2

\* The output directory is absent: the run printed the directives, translated
\* and post-processed, and only then aborted.
C10_Witness ==
    /\ ~env["OUT_DIR"].set
    /\ pc = Panicked
    /\ Len(stdout) >= 6
    /\ Happened("generate", "ok") /\ Happened("postprocess", "")
    /\ Reads("OUT_DIR") = 1
    /\ artifact = << >>

====
